---- MODULE Spec2Model ----
(***************************************************************************)
(* Model of the constraint solver scheduler (nova-solver-scheduler):       *)
(*   - ConstraintSolverScheduler.schedule_run_instance /                    *)
(*     select_destinations / _schedule / _get_selected_hosts                *)
(*     (nova/scheduler/solver_scheduler.py)                                 *)
(*   - the constraint units with get_components: IoOpsConstraint,          *)
(*     PciPassthroughConstraint, BaseFilterConstraint, the no-op and the   *)
(*     num-instances unit (nova/scheduler/solvers/constraints)             *)
(*   - the units with the three vector methods:                            *)
(*     AggregateTypeAffinityConstraint, NumNetworksPerAggregateConstraint  *)
(*     (nova/scheduler/solvers/linearconstraints)                          *)
(*                                                                          *)
(* Python dictionaries are objects with identity: the property bag and its *)
(* nested 'retry' dictionary live in a heap (bags, retries) and the        *)
(* program variables filter_properties / orig_filter_properties hold       *)
(* addresses, so that copy.deepcopy is an allocation of fresh objects and  *)
(* in-place updates are visible through every alias.                       *)
(***************************************************************************)
EXTENDS Integers, Sequences, FiniteSets, TLC

\* ------------------------------------------------------------------ bounds
MaxInstances == 3      \* largest number of requested instances explored
NumHosts == 2          \* number of host states the host manager knows
MaxUnitHosts == 3      \* largest host list given to a constraint unit
MaxUnitInstances == 3  \* largest num_instances given to a constraint unit
MaxDevices == 3        \* largest number of free devices in a host's pool

\* ------------------------------------------------------- orchestrator state
VARIABLES
    entry,                      \* which public method serves the request
    pc,                         \* position of the request in that method
    enable_fallback_scheduler,  \* CONF.solver_scheduler.enable_fallback_scheduler
    request_spec,               \* the caller's request_spec dictionary
    instance_uuids,             \* local instance_uuids (<<>> models None)
    bags,                       \* heap: address -> property bag dictionary
    retries,                    \* heap: address -> nested 'retry' dictionary
    filter_properties,          \* local filter_properties (an address)
    orig_filter_properties,     \* local orig_filter_properties (<<>> or <<address>>)
    entry_bag,                  \* deep value of the caller's bag on entry
    list_hosts,                 \* list(hosts) handed to the solver
    num_instances,              \* filter_properties['num_instances'] of the solve
    solver_calls,               \* outcomes of hosts_solver.solve, in call order
    solver_pairs,               \* (host index, instance) pairs the solver returned
    fallback_args,              \* deep values of the bags passed to the fallback
    weighed_hosts,              \* selection list (weighed_hosts / selected_hosts)
    selection,                  \* selection list as returned, before any pop
    num,                        \* loop index of the assignment loop
    attempts,                   \* per instance: what happened to it
    provision_calls,            \* arguments of every _provision_resource call
    error_reports,              \* driver.handle_schedule_error calls
    notifications,              \* notifier.info event types
    dests,                      \* list select_destinations returned
    exc,                        \* exception that left the public method
    stages                      \* the steps the request has completed, in order

orch_vars == <<entry, pc, enable_fallback_scheduler, request_spec,
               instance_uuids, bags, retries, filter_properties,
               orig_filter_properties, entry_bag, list_hosts, num_instances,
               solver_calls, solver_pairs, fallback_args, weighed_hosts,
               selection, num, attempts, provision_calls, error_reports,
               notifications, dests, exc, stages>>

\* --------------------------------------------------- constraint unit state
VARIABLES
    unit,               \* class of the constraint unit object
    upc,                \* position inside get_components
    hosts,              \* the hosts argument: list of host states
    u_num_instances,    \* filter_properties.get('num_instances')
    max_io_ops,         \* CONF.max_io_ops_per_host
    pci_requests,       \* filter_properties.get('pci_requests'): devices per instance, 0 if none
    host_index,         \* host loop index i
    host_pci_stats,     \* the per-host copy of the device stats
    acceptable_times,   \* counter of _get_acceptable_pci_requests_times
    trials,             \* per host tried: the answers of support_requests / host_passes, in order
    self_variables,     \* self.variables
    self_coefficients,  \* self.coefficients
    self_constants,     \* self.constants
    self_operators,     \* self.operators
    components,         \* tuple returned by get_components (<<>> before)
    stats_ref,          \* the object the name host_pci_stats is bound to: "copy" or "host"
    entry_hosts,        \* the host states as they were when the call started
    instance_type,      \* filter_properties.get('instance_type')['name']
    requested_networks, \* filter_properties.get('requested_networks', None): <<>> or <<list>>
    max_instances_per_host, \* CONF.max_instances_per_host
    vectors,            \* results of the three vector methods, <<>> until called
    self_gen,           \* identity of the list objects bound to self.variables etc.
    earlier,            \* <<>>, or the tuple an earlier call returned and its lists' identity
    call_no             \* calls of get_components started on this unit object

\* What a request hands to the vector units and the num-instances unit.
unit_request == <<instance_type, requested_networks, max_instances_per_host>>

\* What changes only from one call of get_components to the next.
call_vars == <<entry_hosts, earlier, call_no>>

unit_vars == <<unit, upc, hosts, u_num_instances, max_io_ops, pci_requests,
               host_index, host_pci_stats, acceptable_times, trials,
               self_variables,
               self_coefficients, self_constants, self_operators, components,
               stats_ref, unit_request, vectors, self_gen, call_vars>>

vars == <<orch_vars, unit_vars>>

\* ----------------------------------------------------------- heap helpers
Hosts == 1..NumHosts

\* Keys _schedule merges into the property bag.
MergedKeys == {"context", "request_spec", "config_options", "instance_type",
               "num_instances", "instance_uuids"}

\* Keys FilterScheduler.populate_filter_properties writes.
PopulatedKeys == {"project_id", "os_type"}

EmptyDict == [k \in {} |-> "caller"]

\* dict.update: every key of ks is (over)written by writer w.
DictUpdate(d, ks, w) ==
    [k \in (DOMAIN d) \cup ks |-> IF k \in ks THEN w ELSE d[k]]

\* The pop left out: the dictionary keeps the key.
DictPop_kept(d, key) == d

\* dict.pop(key, None)
DictPop(d, key) == [k \in (DOMAIN d) \ {key} |-> d[k]]

\* The value a dictionary denotes, nested 'retry' dictionary included.
DeepValue(b, r, a) ==
    [data |-> b[a].data,
     retry |-> IF b[a].retry = <<>> THEN <<>> ELSE <<r[b[a].retry[1]]>>]

\* copy.copy in place of copy.deepcopy: the fresh bag shares the nested
\* retry dictionary with the original.
deepcopy_shallow(b, r, a) ==
    [bags |-> b @@ ("cp" :> b[a]), retries |-> r, ref |-> "cp"]

\* copy.deepcopy(filter_properties): a fresh bag object and, when the bag
\* holds one, a fresh nested retry dictionary.
deepcopy(b, r, a) ==
    [bags |-> b @@ ("cp" :> [data |-> b[a].data,
                             retry |-> IF b[a].retry = <<>> THEN <<>>
                                       ELSE <<"cp_retry">>]),
     retries |-> IF b[a].retry = <<>> THEN r
                 ELSE r @@ ("cp_retry" :> r[b[a].retry[1]]),
     ref |-> "cp"]

\* FilterScheduler._setup_instance_group: a request carrying a group hint
\* gets 'group_hosts' and 'group_policies' written into its bag.
_setup_instance_group(d, w) ==
    IF "scheduler_hints" \in DOMAIN d
    THEN DictUpdate(d, {"group_hosts", "group_policies"}, w)
    ELSE d

\* FilterScheduler._populate_retry: with re-scheduling disabled nothing
\* changes; otherwise an existing retry dictionary is updated in place
\* (num_attempts += 1) and a missing one is created and stored in the bag.
_populate_retry(b, r, a, mode, fresh) ==
    IF mode = "disabled" THEN [bags |-> b, retries |-> r]
    ELSE IF b[a].retry # <<>>
         THEN [bags |-> b,
               retries |-> [r EXCEPT ![b[a].retry[1]].num_attempts = @ + 1]]
         ELSE [bags |-> [b EXCEPT ![a].retry = <<fresh>>],
               retries |-> r @@ (fresh :> [num_attempts |-> 1, hosts |-> <<>>])]

RetryModes == {"disabled", "enabled", "exceeded"}

\* num_instances as _schedule computes it (lines 194-197).
NumInstancesOf(uuids, spec) ==
    IF uuids # <<>> THEN Len(uuids)
    ELSE IF spec.num_instances # <<>> THEN spec.num_instances[1] ELSE 1

\* The property-bag part of _schedule up to populate_filter_properties,
\* performed by writer w on the bag at address a.
MergeProperties(b, r, a, mode, fresh, w) ==
    LET b1 == [b EXCEPT ![a].data = _setup_instance_group(@, w)]
        h  == _populate_retry(b1, r, a, mode, fresh)
    IN  IF mode = "exceeded" THEN h
        ELSE [bags |-> [h.bags EXCEPT ![a].data =
                           DictUpdate(DictUpdate(@, MergedKeys, w),
                                      PopulatedKeys, w)],
              retries |-> h.retries]

\* ------------------------------------------------------------------ Init
\* The three vector methods of a unit have not been called.
NoVectors ==
    [coefficient_vectors |-> <<>>, variable_vectors |-> <<>>,
     operations |-> <<>>]

\* No constraint unit is at work.
UnitsIdle ==
    /\ unit = "none"
    /\ upc = "idle"
    /\ hosts = <<>>
    /\ u_num_instances = 0
    /\ max_io_ops = 0
    /\ pci_requests = 0
    /\ host_index = 0
    /\ host_pci_stats = 0
    /\ acceptable_times = 0
    /\ trials = <<>>
    /\ self_variables = <<>>
    /\ self_coefficients = <<>>
    /\ self_constants = <<>>
    /\ self_operators = <<>>
    /\ components = <<>>
    /\ stats_ref = "copy"
    /\ entry_hosts = <<>>
    /\ instance_type = "none"
    /\ requested_networks = <<>>
    /\ max_instances_per_host = 0
    /\ vectors = NoVectors
    /\ self_gen = 0
    /\ earlier = <<>>
    /\ call_no = 0

CallerData ==
    { EmptyDict,
      [k \in {"scheduler_hints"} |-> "caller"],
      [k \in {"context", "instance_type"} |-> "caller"] }

CallerRetry == { <<>>, <<[num_attempts |-> 1, hosts |-> <<1>>]>> }

UuidsOf(n) == [k \in 1..n |-> k]

Init ==
    /\ UnitsIdle
    /\ entry \in {"schedule_run_instance", "select_destinations"}
    /\ pc = "start"
    /\ enable_fallback_scheduler \in BOOLEAN
    /\ \E n \in -1..MaxInstances, withUuids \in BOOLEAN :
          /\ (entry = "schedule_run_instance" => withUuids)
          /\ (withUuids => n >= 0)
          /\ request_spec = [num_instances |-> <<n>>,
                             instance_uuids |-> IF withUuids THEN <<UuidsOf(n)>>
                                                ELSE <<>>,
                             launch_index |-> -1]
    /\ instance_uuids = <<>>
    /\ \E d \in CallerData, rt \in CallerRetry :
          /\ bags = ("fp" :> [data |-> d,
                              retry |-> IF rt = <<>> THEN <<>> ELSE <<"fp_retry">>])
          /\ retries = IF rt = <<>> THEN [x \in {} |-> rt]
                       ELSE ("fp_retry" :> rt[1])
    /\ filter_properties = "fp"
    /\ orig_filter_properties = <<>>
    /\ entry_bag = DeepValue(bags, retries, "fp")
    /\ list_hosts = <<>>
    /\ num_instances = 0
    /\ solver_calls = <<>>
    /\ solver_pairs = <<>>
    /\ fallback_args = <<>>
    /\ weighed_hosts = <<>>
    /\ selection = <<>>
    /\ num = 0
    /\ attempts = <<>>
    /\ provision_calls = <<>>
    /\ error_reports = <<>>
    /\ notifications = <<>>
    /\ dests = <<>>
    /\ exc = "none"
    /\ stages = <<>>

\* ------------------------------------------------------------- operations
\* schedule_run_instance lines 82-92 / select_destinations lines 150-152:
\* start notification, instance_uuids = request_spec.get('instance_uuids'),
\* orig_filter_properties = copy.deepcopy(filter_properties).
Enter ==
    /\ stages' = Append(stages, "copy")
    /\ pc = "start"
    /\ LET h == deepcopy(bags, retries, filter_properties)
       IN  /\ bags' = h.bags
           /\ retries' = h.retries
           /\ orig_filter_properties' = <<h.ref>>
    /\ instance_uuids' = IF request_spec.instance_uuids = <<>> THEN <<>>
                         ELSE request_spec.instance_uuids[1]
    /\ notifications' = IF entry = "schedule_run_instance"
                        THEN Append(notifications, "scheduler.run_instance.start")
                        ELSE notifications
    /\ pc' = "schedule"
    /\ UNCHANGED <<unit_vars, entry, enable_fallback_scheduler, request_spec,
                   filter_properties, entry_bag, list_hosts, num_instances,
                   solver_calls, solver_pairs, fallback_args, weighed_hosts,
                   selection, num, attempts, provision_calls, error_reports,
                   dests, exc>>

\* _schedule lines 178-206: group setup, retry bookkeeping, num_instances,
\* filter_properties.update({...}) and populate_filter_properties.  An
\* exhausted retry budget makes _populate_retry raise NoValidHost, which is
\* not caught by the callers' "except SolverFailed".
ScheduleMerge ==
    /\ pc = "schedule"
    /\ \E mode \in RetryModes :
          LET h == MergeProperties(bags, retries, filter_properties, mode,
                                   "new_retry", "solver")
          IN  /\ bags' = h.bags
              /\ retries' = h.retries
              /\ IF mode = "exceeded"
                 THEN /\ pc' = "aborted"
                      /\ exc' = "NoValidHost"
                      /\ UNCHANGED <<num_instances, stages>>
                 ELSE /\ pc' = "gather"
                      /\ num_instances' = NumInstancesOf(instance_uuids, request_spec)
                      /\ stages' = Append(stages, "merge")
                      /\ UNCHANGED exc
    /\ UNCHANGED <<unit_vars, entry, enable_fallback_scheduler, request_spec,
                   instance_uuids, filter_properties, orig_filter_properties,
                   entry_bag, list_hosts, solver_calls, solver_pairs,
                   fallback_args, weighed_hosts, selection, num, attempts,
                   provision_calls, error_reports, notifications, dests>>

\* Sub-lists of the host manager's hosts, order kept: what
\* get_hosts_stripping_ignored_and_forced can leave.
RECURSIVE SubLists(_)
SubLists(hs) ==
    IF hs = <<>> THEN { <<>> }
    ELSE LET rest == SubLists(Tail(hs))
         IN  rest \cup { <<Head(hs)>> \o t : t \in rest }

AllHostStates == [i \in 1..NumHosts |-> i]

\* _get_selected_hosts lines 219-226: host states, ignore/force stripping,
\* list(hosts).
GatherHosts ==
    /\ stages' = Append(stages, "gather")
    /\ pc = "gather"
    /\ list_hosts' \in SubLists(AllHostStates)
    /\ pc' = "solve"
    /\ UNCHANGED <<unit_vars, entry, enable_fallback_scheduler, request_spec,
                   instance_uuids, bags, retries, filter_properties,
                   orig_filter_properties, entry_bag, num_instances,
                   solver_calls, solver_pairs, fallback_args, weighed_hosts,
                   selection, num, attempts, provision_calls, error_reports,
                   notifications, dests, exc>>

\* ------------------------------------------------- solver adapter (spec 4.4)
\* Assignments the solver adapter may return for h hosts and n instances:
\* sets of (host index, instance index) pairs in which every instance index
\* is on at most one host; fewer than n pairs is ordinary under-assignment.
Solutions(h, n) ==
    UNION { { { <<f[j], j>> : j \in J } : f \in [J -> 1..h] } :
            J \in SUBSET (0..(n - 1)) }

\* The pairs of S in deterministic (host-index, instance-index) order.
PairsInOrder(S, h, n) ==
    LET F[k \in 0..(h * n)] ==
            IF k = h * n THEN <<>>
            ELSE LET p == <<(k \div n) + 1, k % n>>
                 IN  (IF p \in S THEN <<p>> ELSE <<>>) \o F[k + 1]
    IN  F[0]

\* Outcomes of hosts_solver.solve(list_hosts, filter_properties): the
\* variable matrix cannot be built for a zero dimension; otherwise the solver
\* fails, a constraint unit raises, or a solution is returned.
SolveOutcomes(h, n) ==
    IF h <= 0 \/ n <= 0
    THEN { [kind |-> "InvalidDimension", pairs |-> <<>>] }
    ELSE { [kind |-> "SolverFailed", pairs |-> <<>>],
           [kind |-> "ConstraintUnitError", pairs |-> <<>>] }
         \cup { [kind |-> "solved", pairs |-> PairsInOrder(S, h, n)] :
                S \in Solutions(h, n) }

\* weights.WeighedHost(host, weight); by records which strategy selected it.
WeighedHost(host, weight, by) == [obj |-> host, weight |-> weight, by |-> by]

\* The comprehension of lines 235-236 running once more over the pairs.
SelectedHosts_twice(pairs, hs) ==
    [p \in 1..(2 * Len(pairs)) |->
        WeighedHost(hs[pairs[((p - 1) % Len(pairs)) + 1][1]], 1, "solver")]

\* The comprehension of lines 235-236 building the list back to front.
SelectedHosts_reversed(pairs, hs) ==
    [p \in 1..Len(pairs) |->
        WeighedHost(hs[pairs[Len(pairs) + 1 - p][1]], 1, "solver")]

\* _get_selected_hosts lines 235-236: one WeighedHost of weight 1 per
\* (host, instance) pair, in the solver's order.
SelectedHosts(pairs, hs) ==
    [p \in 1..Len(pairs) |-> WeighedHost(hs[pairs[p][1]], 1, "solver")]

\* "except Exception" in place of "except SolverFailed".
ExceptSolverFailed_any(kind) == kind # "solved"

\* The except clauses of lines 96 and 156 catch SolverFailed only.
ExceptSolverFailed(kind) == kind = "SolverFailed"

\* _get_selected_hosts lines 227-238 and the try/except around _schedule.
Solve ==
    /\ stages' = Append(stages, "solve")
    /\ pc = "solve"
    /\ \E o \in SolveOutcomes(Len(list_hosts), num_instances) :
          /\ solver_calls' = Append(solver_calls, o.kind)
          /\ solver_pairs' = o.pairs
          /\ IF o.kind = "solved"
             THEN /\ weighed_hosts' = SelectedHosts(o.pairs, list_hosts)
                  /\ selection' = weighed_hosts'
                  /\ pc' = "selected"
                  /\ UNCHANGED exc
             ELSE IF ExceptSolverFailed(o.kind)
             THEN /\ pc' = "failed"
                  /\ UNCHANGED <<weighed_hosts, selection, exc>>
             ELSE /\ pc' = "aborted"
                  /\ exc' = o.kind
                  /\ UNCHANGED <<weighed_hosts, selection>>
    /\ UNCHANGED <<unit_vars, entry, enable_fallback_scheduler, request_spec,
                   instance_uuids, bags, retries, filter_properties,
                   orig_filter_properties, entry_bag, list_hosts,
                   num_instances, fallback_args, num, attempts,
                   provision_calls, error_reports, notifications, dests>>

\* Selection lists FilterScheduler._schedule may return for n instances:
\* it stops at the first instance no host passes for, so 0..n entries.
FallbackLists(n) ==
    UNION { [1..m -> { WeighedHost(x, 1, "fallback") : x \in Hosts }] :
            m \in 0..n }

\* Lines 96-103 / 156-163, the handler of SolverFailed: with the fallback
\* enabled, filter_properties = orig_filter_properties and
\* fallback_scheduler._schedule(context, request_spec, filter_properties,
\* instance_uuids), which does its own retry bookkeeping and merges on the
\* bag it is given; otherwise the selection list is [].
HandleSolverFailed ==
    /\ pc = "failed"
    /\ IF enable_fallback_scheduler
       THEN /\ filter_properties' = orig_filter_properties[1]
            /\ stages' = Append(stages, "fallback")
            /\ fallback_args' = Append(fallback_args,
                                  DeepValue(bags, retries, filter_properties'))
            /\ \E mode \in RetryModes :
                  LET h == MergeProperties(bags, retries, filter_properties',
                                           mode, "fb_retry", "fallback")
                  IN  /\ bags' = h.bags
                      /\ retries' = h.retries
                      /\ IF mode = "exceeded"
                         THEN /\ pc' = "aborted"
                              /\ exc' = "NoValidHost"
                              /\ UNCHANGED <<weighed_hosts, selection>>
                         ELSE /\ weighed_hosts' \in FallbackLists(
                                     NumInstancesOf(instance_uuids, request_spec))
                              /\ selection' = weighed_hosts'
                              /\ pc' = "selected"
                              /\ UNCHANGED exc
       ELSE /\ weighed_hosts' = <<>>
            /\ selection' = <<>>
            /\ pc' = "selected"
            /\ UNCHANGED <<filter_properties, fallback_args, bags, retries, exc,
                           stages>>
    /\ UNCHANGED <<unit_vars, entry, enable_fallback_scheduler, request_spec,
                   instance_uuids, orig_filter_properties, entry_bag,
                   list_hosts, num_instances, solver_calls, solver_pairs,
                   num, attempts, provision_calls, error_reports,
                   notifications, dests>>

\* schedule_run_instance lines 108-112: request_spec.pop('instance_uuids')
\* and filter_properties.pop('context', None).
PopUuidsAndContext ==
    /\ UNCHANGED stages
    /\ pc = "selected"
    /\ entry = "schedule_run_instance"
    /\ instance_uuids' = request_spec.instance_uuids[1]
    /\ request_spec' = [request_spec EXCEPT !.instance_uuids = <<>>]
    /\ bags' = [bags EXCEPT ![filter_properties].data = DictPop(@, "context")]
    /\ num' = 0
    /\ pc' = "loop"
    /\ UNCHANGED <<unit_vars, entry, enable_fallback_scheduler, retries,
                   filter_properties, orig_filter_properties, entry_bag,
                   list_hosts, num_instances, solver_calls, solver_pairs,
                   fallback_args, weighed_hosts, selection, attempts,
                   provision_calls, error_reports, notifications, dests, exc>>

\* FilterScheduler._add_retry_host, called by _provision_resource: the chosen
\* host is appended to retry['hosts'] when the bag holds a retry dictionary.
AddRetryHost(b, r, a, host) ==
    IF b[a].retry = <<>> THEN r
    ELSE [r EXCEPT ![b[a].retry[1]].hosts = Append(@, host)]

\* The loop going on without lines 143-144.
ScrubRetryHosts_skipped(b, r, a) == r

\* Lines 143-144: retry = filter_properties.get('retry', {});
\* retry['hosts'] = [].
ScrubRetryHosts(b, r, a) ==
    IF b[a].retry = <<>> THEN r
    ELSE [r EXCEPT ![b[a].retry[1]].hosts = <<>>]

\* weighed_hosts.pop() in place of weighed_hosts.pop(0).
PopFirst_last(list) ==
    [host |-> list[Len(list)], rest |-> SubSeq(list, 1, Len(list) - 1)]

\* weighed_hosts.pop(0) of line 119.
PopFirst(list) == [host |-> Head(list), rest |-> Tail(list)]

\* The handler of line 135 re-raising after the report.
HandleInstanceError_reraise(reports, uuid, ex) ==
    [reports |-> Append(reports, [uuid |-> uuid, ex |-> ex]), continue |-> FALSE]

\* What the handler of line 135 does with an exception of one instance:
\* report it for that instance and go on with the loop.
HandleInstanceError(reports, uuid, ex) ==
    [reports |-> Append(reports, [uuid |-> uuid, ex |-> ex]), continue |-> TRUE]

\* One iteration of the loop of lines 114-144 for instance number num:
\* launch_index, weighed_hosts.pop(0) or NoValidHost, _provision_resource
\* (which may raise), handle_schedule_error, scrub of the retry host list.
ProvisionInstance ==
    /\ stages' = Append(stages, "assign")
    /\ pc = "loop"
    /\ num < Len(instance_uuids)
    /\ LET uuid == instance_uuids[num + 1]
           spec1 == [request_spec EXCEPT !.launch_index = num]
       IN
       /\ request_spec' = spec1
       /\ IF weighed_hosts = <<>>
          THEN LET h == HandleInstanceError(error_reports, uuid, "NoValidHost")
               IN  /\ error_reports' = h.reports
                   /\ pc' = IF h.continue THEN "loop" ELSE "aborted"
                   /\ attempts' = Append(attempts,
                          [uuid |-> uuid, result |-> "NoValidHost", used |-> <<>>])
                   /\ retries' = ScrubRetryHosts(bags, retries, filter_properties)
                   /\ UNCHANGED <<weighed_hosts, provision_calls>>
          ELSE LET weighed_host == PopFirst(weighed_hosts).host
                   call == [uuid |-> uuid,
                            host |-> weighed_host.obj,
                            launch_index |-> spec1.launch_index,
                            spec_has_uuids |-> spec1.instance_uuids # <<>>,
                            props |-> DeepValue(bags, retries, filter_properties)]
                   r1 == AddRetryHost(bags, retries, filter_properties,
                                      weighed_host.obj)
               IN  /\ weighed_hosts' = PopFirst(weighed_hosts).rest
                   /\ provision_calls' = Append(provision_calls, call)
                   /\ retries' = ScrubRetryHosts(bags, r1, filter_properties)
                   /\ \/ /\ attempts' = Append(attempts,
                                [uuid |-> uuid, result |-> "provisioned",
                                 used |-> <<weighed_host>>])
                         /\ pc' = "loop"
                         /\ UNCHANGED error_reports
                      \/ LET h == HandleInstanceError(error_reports, uuid,
                                                      "ProvisionError")
                         IN  /\ error_reports' = h.reports
                             /\ pc' = IF h.continue THEN "loop" ELSE "aborted"
                             /\ attempts' = Append(attempts,
                                    [uuid |-> uuid, result |-> "error",
                                     used |-> <<weighed_host>>])
    /\ num' = num + 1
    /\ UNCHANGED <<unit_vars, entry, enable_fallback_scheduler, instance_uuids, bags,
                   filter_properties, orig_filter_properties, entry_bag,
                   list_hosts, num_instances, solver_calls, solver_pairs,
                   fallback_args, selection, notifications, dests, exc>>

\* Line 146 moved into the loop body: the end is notified and the method
\* left while instances remain.
NotifyEnd_early ==
    /\ stages' = Append(stages, "done")
    /\ pc = "loop"
    /\ notifications' = Append(notifications, "scheduler.run_instance.end")
    /\ pc' = "done"
    /\ UNCHANGED <<unit_vars, entry, enable_fallback_scheduler, request_spec,
                   instance_uuids, bags, retries, filter_properties,
                   orig_filter_properties, entry_bag, list_hosts,
                   num_instances, solver_calls, solver_pairs, fallback_args,
                   weighed_hosts, selection, num, attempts, provision_calls,
                   error_reports, dests, exc>>

\* Line 146: the loop is over, 'scheduler.run_instance.end' is notified.
NotifyEnd ==
    /\ stages' = Append(stages, "done")
    /\ pc = "loop"
    /\ num >= Len(instance_uuids)
    /\ notifications' = Append(notifications, "scheduler.run_instance.end")
    /\ pc' = "done"
    /\ UNCHANGED <<unit_vars, entry, enable_fallback_scheduler, request_spec,
                   instance_uuids, bags, retries, filter_properties,
                   orig_filter_properties, entry_bag, list_hosts,
                   num_instances, solver_calls, solver_pairs, fallback_args,
                   weighed_hosts, selection, num, attempts, provision_calls,
                   error_reports, dests, exc>>

\* The shortfall test passing an empty selection list.
TooFewSelected_nonempty(selected, n) == 0 < Len(selected) /\ Len(selected) < n

\* The shortfall test with <= in place of <.
TooFewSelected_le(selected, n) == Len(selected) <= n

\* select_destinations line 166: the request could not be fulfilled.
TooFewSelected(selected, n) == Len(selected) < n

\* select_destinations lines 169-170.
DestsOf(selected) ==
    [p \in 1..Len(selected) |->
        [host |-> selected[p].obj, nodename |-> selected[p].obj,
         limits |-> selected[p].obj]]

\* select_destinations lines 165-171.
ReturnDests ==
    /\ stages' = Append(stages, "done")
    /\ pc = "selected"
    /\ entry = "select_destinations"
    /\ IF TooFewSelected(weighed_hosts, request_spec.num_instances[1])
       THEN /\ exc' = "NoValidHost"
            /\ UNCHANGED dests
       ELSE /\ dests' = DestsOf(weighed_hosts)
            /\ UNCHANGED exc
    /\ pc' = "done"
    /\ UNCHANGED <<unit_vars, entry, enable_fallback_scheduler, request_spec,
                   instance_uuids, bags, retries, filter_properties,
                   orig_filter_properties, entry_bag, list_hosts,
                   num_instances, solver_calls, solver_pairs, fallback_args,
                   weighed_hosts, selection, num, attempts, provision_calls,
                   error_reports, notifications>>

Next ==
    \/ Enter
    \/ ScheduleMerge
    \/ GatherHosts
    \/ Solve
    \/ HandleSolverFailed
    \/ PopUuidsAndContext
    \/ ProvisionInstance
    \/ NotifyEnd
    \/ ReturnDests

Spec == Init /\ [][Next]_vars

\* ======================================================== constraint units
\* The orchestrator is not serving a request.
OrchIdle ==
    /\ entry = "none"
    /\ pc = "idle"
    /\ enable_fallback_scheduler = FALSE
    /\ request_spec = [num_instances |-> <<>>, instance_uuids |-> <<>>,
                       launch_index |-> -1]
    /\ instance_uuids = <<>>
    /\ bags = ("fp" :> [data |-> EmptyDict, retry |-> <<>>])
    /\ retries = [x \in {} |-> <<>>]
    /\ filter_properties = "fp"
    /\ orig_filter_properties = <<>>
    /\ entry_bag = DeepValue(bags, retries, "fp")
    /\ list_hosts = <<>>
    /\ num_instances = 0
    /\ solver_calls = <<>>
    /\ solver_pairs = <<>>
    /\ fallback_args = <<>>
    /\ weighed_hosts = <<>>
    /\ selection = <<>>
    /\ num = 0
    /\ attempts = <<>>
    /\ provision_calls = <<>>
    /\ error_reports = <<>>
    /\ notifications = <<>>
    /\ dests = <<>>
    /\ exc = "none"
    /\ stages = <<>>

\* Loads and limits of concurrent I/O operations explored.
IoOpsLoads == {0, 1, 3, 4}
IoOpsLimits == {3, 5}

\* Devices one instance requests; 0 models a missing or empty 'pci_requests'.
PciRequestCounts == {0, 1, 2}

\* Free devices of a host's pool.
PciPoolSizes == {0, 1, 2, MaxDevices}

\* Instances running on a host, for the num-instances unit.
NumInstancesLoads == {1, 2, 5, 6}

\* Names of instance types, and what aggregate_metadata_get_by_host returns
\* for key 'instance_type': <<>> for the empty dict, or <<the set of names>>.
InstanceTypes == {"m1.small", "m1.large"}
AggregateMetadata == {<<>>, <<{"m1.small"}>>, <<{"m1.large"}>>}

\* One aggregate of host_aggregates_stats: metadata 'max_networks' and the
\* 'networks' set, each <<>> when the key is missing.
Aggregate(max_networks, networks) ==
    [max_networks |-> max_networks, networks |-> networks]

\* host_aggregates_stats.values() of a host, in iteration order.
AggregateLists ==
    { <<>>,
      << Aggregate(<<>>, <<{1}>>), Aggregate(<<1>>, <<>>) >>,
      << Aggregate(<<1>>, <<{1}>>) >>,
      << Aggregate(<<2>>, <<{1}>>) >>,
      << Aggregate(<<2>>, <<{1}>>), Aggregate(<<1>>, <<{1}>>) >> }

\* filter_properties.get('requested_networks', None): <<>> for None, else
\* <<the list>> of the entries' network_id (0 for a missing network_id).
RequestedNetworks ==
    { <<>>, << <<>> >>, << <<1>> >>, << <<2>> >>, << <<2, 2>> >>,
      << <<0, 2>> >> }

\* The units with get_components, and the units with the three vector methods.
ComponentUnits ==
    {"IoOpsConstraint", "PciPassthroughConstraint", "BaseFilterConstraint",
     "NoLinearConstraint", "NumInstancesConstraint"}
VectorUnits ==
    {"AggregateTypeAffinityConstraint", "NumNetworksPerAggregateConstraint"}

\* The host states a unit may be handed: the attributes the unit reads.
HostStates(u) ==
    CASE u = "IoOpsConstraint" -> [num_io_ops : IoOpsLoads, pci_stats : {0}]
      [] u = "PciPassthroughConstraint" ->
             [num_io_ops : {0}, pci_stats : PciPoolSizes]
      [] u = "BaseFilterConstraint" -> [host_passes : BOOLEAN]
      [] u = "NoLinearConstraint" -> [num_io_ops : {0}, pci_stats : {0}]
      [] u = "NumInstancesConstraint" -> [num_instances : NumInstancesLoads]
      [] u = "AggregateTypeAffinityConstraint" -> [metadata : AggregateMetadata]
      [] u = "NumNetworksPerAggregateConstraint" ->
             [host_aggregates_stats : AggregateLists]

\* A request for a constraint unit: the host list with the attributes the
\* unit reads, num_instances and the request keys and configuration the
\* units read.
UnitRequest(u, hs, n, limit, pci, type, networks, per_host) ==
    /\ \E h \in 1..MaxUnitHosts : hs \in [1..h -> HostStates(u)]
    /\ n \in 1..MaxUnitInstances
    /\ limit \in IF u = "IoOpsConstraint" THEN IoOpsLimits ELSE {0}
    /\ pci \in IF u = "PciPassthroughConstraint" THEN PciRequestCounts ELSE {0}
    /\ type \in IF u = "AggregateTypeAffinityConstraint"
                THEN InstanceTypes ELSE {"none"}
    /\ networks \in IF u = "NumNetworksPerAggregateConstraint"
                    THEN RequestedNetworks ELSE {<<>>}
    /\ per_host = IF u = "NumInstancesConstraint" THEN 5 ELSE 0

\* A unit object after construction, about to serve its first request.
InitUnits ==
    /\ OrchIdle
    /\ unit \in ComponentUnits \cup VectorUnits
    /\ upc = "idle"
    /\ UnitRequest(unit, hosts, u_num_instances, max_io_ops, pci_requests,
                   instance_type, requested_networks, max_instances_per_host)
    /\ host_index = 0
    /\ host_pci_stats = 0
    /\ acceptable_times = 0
    /\ trials = <<>>
    /\ self_variables = <<>>
    /\ self_coefficients = <<>>
    /\ self_constants = <<>>
    /\ self_operators = <<>>
    /\ components = <<>>
    /\ stats_ref = "copy"
    /\ entry_hosts = hosts
    /\ vectors = NoVectors
    /\ self_gen = 0
    /\ earlier = <<>>
    /\ call_no = 0

\* var_matrix[i][j], the handle of the decision variable of host i and
\* instance j (both counted from 0).
var_matrix(i0, j0) == <<i0, j0>>

\* The inner loop starting one instance late: xrange(from + 1, n).
AppendForcedZero_skipfirst(buf, i0, from, n) ==
    IF from + 1 >= n THEN buf
    ELSE [variables |-> buf.variables \o
                [k \in 1..(n - from - 1) |-> << var_matrix(i0, from + k) >>],
          coefficients |-> buf.coefficients \o [k \in 1..(n - from - 1) |-> <<1>>],
          constants |-> buf.constants \o [k \in 1..(n - from - 1) |-> 0],
          operators |-> buf.operators \o [k \in 1..(n - from - 1) |-> "=="]]

\* One row over all the forbidden variables of the host in place of one
\* singleton row per variable.
AppendForcedZero_onerow(buf, i0, from, n) ==
    IF from >= n THEN buf
    ELSE [variables |-> Append(buf.variables,
                [k \in 1..(n - from) |-> var_matrix(i0, from + k - 1)]),
          coefficients |-> Append(buf.coefficients, [k \in 1..(n - from) |-> 1]),
          constants |-> Append(buf.constants, 0),
          operators |-> Append(buf.operators, "==")]

\* The four appends of the inner loops (io_ops lines 48-52, pci lines
\* 69-73): for j in xrange(from, n), the singleton row [var_matrix[i][j]],
\* [1], 0, '=='.
AppendForcedZero(buf, i0, from, n) ==
    IF from >= n THEN buf
    ELSE [variables |-> buf.variables \o
                [k \in 1..(n - from) |-> << var_matrix(i0, from + k - 1) >>],
          coefficients |-> buf.coefficients \o [k \in 1..(n - from) |-> <<1>>],
          constants |-> buf.constants \o [k \in 1..(n - from) |-> 0],
          operators |-> buf.operators \o [k \in 1..(n - from) |-> "=="]]

\* The unit's four buffers as one record.
Buffers ==
    [variables |-> self_variables, coefficients |-> self_coefficients,
     constants |-> self_constants, operators |-> self_operators]

\* Four empty lists.
EmptyBuffers ==
    [variables |-> <<>>, coefficients |-> <<>>, constants |-> <<>>,
     operators |-> <<>>]

\* No reset: the attributes keep their list objects and what they hold.
_reset_skipped(gen, buf) == [gen |-> gen, buffers |-> buf]

\* Emptying the four list objects in place (del self.variables[:]), so the
\* attributes keep naming the objects an earlier call returned.
_reset_inplace(gen, buf) == [gen |-> gen, buffers |-> EmptyBuffers]

\* BaseLinearConstraint._reset (lines 39-43): the four attributes are bound
\* to four new empty list objects.
_reset(gen, buf) == [gen |-> gen + 1, buffers |-> EmptyBuffers]

\* BaseLinearConstraint.get_components lines 49-53 up to the host loop:
\* _reset(), then the prelude of _generate_components; the device unit
\* returns at once when there are no pci_requests (lines 56-60).
GetComponents ==
    /\ unit \in ComponentUnits
    /\ upc = "idle"
    /\ LET r == _reset(self_gen, Buffers)
       IN  /\ self_gen' = r.gen
           /\ self_variables' = r.buffers.variables
           /\ self_coefficients' = r.buffers.coefficients
           /\ self_constants' = r.buffers.constants
           /\ self_operators' = r.buffers.operators
    /\ host_index' = 0
    /\ upc' = IF unit = "PciPassthroughConstraint" /\ pci_requests = 0
              THEN "finish" ELSE "hosts"
    /\ UNCHANGED <<orch_vars, unit, hosts, u_num_instances, max_io_ops,
                   pci_requests, host_pci_stats, acceptable_times, trials,
                   components, stats_ref, unit_request, vectors, call_vars>>

\* The acceptable count without the clamp of lines 45-46.
AcceptableIoOps_noclamp(limit, load) == limit - load

\* io_ops_constraint lines 44-46.
AcceptableIoOps(limit, load) ==
    LET acceptable_num_instances == limit - load
    IN  IF acceptable_num_instances < 0 THEN 0 ELSE acceptable_num_instances

\* IoOpsConstraint._generate_components, one iteration of the host loop
\* (lines 41-57).
IoOpsHost ==
    /\ unit = "IoOpsConstraint"
    /\ upc = "hosts"
    /\ host_index < Len(hosts)
    /\ LET acceptable_num_instances ==
               AcceptableIoOps(max_io_ops, hosts[host_index + 1].num_io_ops)
           buf == AppendForcedZero(Buffers, host_index,
                                   acceptable_num_instances, u_num_instances)
       IN  /\ self_variables' = buf.variables
           /\ self_coefficients' = buf.coefficients
           /\ self_constants' = buf.constants
           /\ self_operators' = buf.operators
    /\ host_index' = host_index + 1
    /\ UNCHANGED <<orch_vars, unit, upc, hosts, u_num_instances, max_io_ops,
                   pci_requests, host_pci_stats, acceptable_times, trials,
                   components, stats_ref, unit_request, vectors, self_gen,
                   call_vars>>

\* PciDeviceStats.support_requests: the pool still has the devices one
\* instance requests.
support_requests(stats, requests) == stats >= requests

\* The usage of an accepted trial committed twice.
apply_requests_twice(stats, requests) == stats - 2 * requests

\* PciDeviceStats.apply_requests: the devices are taken from the pool.
apply_requests(stats, requests) == stats - requests

\* The name bound to the host's own stats object, no copy made.
deepcopy_pci_stats_alias(stats) == [ref |-> "host", value |-> stats]

\* copy.deepcopy(hosts[i].pci_stats), line 63: a new object of equal value.
deepcopy_pci_stats(stats) == [ref |-> "copy", value |-> stats]

\* PciPassthroughConstraint._generate_components lines 63-66: the host's
\* stats are deep-copied and the trial loop starts at 0.
PciBeginHost ==
    /\ unit = "PciPassthroughConstraint"
    /\ upc = "hosts"
    /\ host_index < Len(hosts)
    /\ LET c == deepcopy_pci_stats(hosts[host_index + 1].pci_stats)
       IN  /\ stats_ref' = c.ref
           /\ host_pci_stats' = c.value
    /\ acceptable_times' = 0
    /\ trials' = Append(trials, <<>>)
    /\ upc' = "trial"
    /\ UNCHANGED <<orch_vars, unit, hosts, u_num_instances, max_io_ops,
                   pci_requests, host_index, self_variables,
                   self_coefficients, self_constants, self_operators,
                   components, unit_request, vectors, self_gen, call_vars>>

\* _get_acceptable_pci_requests_times lines 42-47: one pass of the while
\* loop, taken while acceptable_times < max_times_to_try.  apply_requests
\* changes the object the name host_pci_stats is bound to.
PciTrial ==
    /\ upc = "trial"
    /\ acceptable_times < u_num_instances
    /\ trials' = [trials EXCEPT ![Len(trials)] =
                     Append(@, support_requests(host_pci_stats, pci_requests))]
    /\ IF support_requests(host_pci_stats, pci_requests)
       THEN /\ acceptable_times' = acceptable_times + 1
            /\ host_pci_stats' = apply_requests(host_pci_stats, pci_requests)
            /\ hosts' = IF stats_ref = "host"
                        THEN [hosts EXCEPT ![host_index + 1].pci_stats =
                                 apply_requests(host_pci_stats, pci_requests)]
                        ELSE hosts
            /\ UNCHANGED upc
       ELSE /\ upc' = "rows"
            /\ UNCHANGED <<acceptable_times, host_pci_stats, hosts>>
    /\ UNCHANGED <<orch_vars, unit, u_num_instances, max_io_ops,
                   pci_requests, host_index, self_variables,
                   self_coefficients, self_constants, self_operators,
                   components, stats_ref, unit_request, vectors, self_gen,
                   call_vars>>

\* PciPassthroughConstraint._generate_components lines 68-78: the trial
\* loop is over (break, or acceptable_times reached num_instances); rows for
\* j in xrange(acceptable_num_instances, num_instances), next host.
PciEmitRows ==
    /\ \/ upc = "rows"
       \/ upc = "trial" /\ acceptable_times >= u_num_instances
    /\ LET buf == AppendForcedZero(Buffers, host_index, acceptable_times,
                                   u_num_instances)
       IN  /\ self_variables' = buf.variables
           /\ self_coefficients' = buf.coefficients
           /\ self_constants' = buf.constants
           /\ self_operators' = buf.operators
    /\ host_index' = host_index + 1
    /\ upc' = "hosts"
    /\ UNCHANGED <<orch_vars, unit, hosts, u_num_instances, max_io_ops,
                   pci_requests, host_pci_stats, acceptable_times, trials,
                   components, stats_ref, unit_request, vectors, self_gen,
                   call_vars>>

\* get_components lines 38-39: _generate_components is over, the four
\* buffers are returned.
ReturnComponents ==
    /\ \/ upc = "finish"
       \/ upc = "hosts" /\ host_index >= Len(hosts)
    /\ components' = <<self_variables, self_coefficients, self_constants,
                       self_operators>>
    /\ upc' = "returned"
    /\ UNCHANGED <<orch_vars, unit, hosts, u_num_instances, max_io_ops,
                   pci_requests, host_index, host_pci_stats, acceptable_times,
                   trials, self_variables, self_coefficients, self_constants,
                   self_operators, stats_ref, unit_request, vectors, self_gen,
                   call_vars>>

\* Rows for the hosts that pass the filter instead of those that fail it.
FilterRows_passing(buf, i0, host_passes, n) ==
    IF host_passes THEN AppendForcedZero(buf, i0, 0, n) ELSE buf

\* BaseFilterConstraint._generate_components lines 75-80: if not
\* host_passes, for j in xrange(num_instances) the singleton row.
FilterRows(buf, i0, host_passes, n) ==
    IF ~host_passes THEN AppendForcedZero(buf, i0, 0, n) ELSE buf

\* BaseFilterConstraint._generate_components, one iteration of the host
\* loop (lines 72-80); the call of host_filter.host_passes is logged.
FilterHost ==
    /\ unit = "BaseFilterConstraint"
    /\ upc = "hosts"
    /\ host_index < Len(hosts)
    /\ LET host_passes == hosts[host_index + 1].host_passes
           buf == FilterRows(Buffers, host_index, host_passes, u_num_instances)
       IN  /\ trials' = Append(trials, <<host_passes>>)
           /\ self_variables' = buf.variables
           /\ self_coefficients' = buf.coefficients
           /\ self_constants' = buf.constants
           /\ self_operators' = buf.operators
    /\ host_index' = host_index + 1
    /\ UNCHANGED <<orch_vars, unit, upc, hosts, u_num_instances, max_io_ops,
                   pci_requests, host_pci_stats, acceptable_times,
                   components, stats_ref, unit_request, vectors, self_gen,
                   call_vars>>

\* A _generate_components that appends one row.
BaseGenerateComponents_row(buf) == AppendForcedZero(buf, 0, 0, 1)

\* BaseLinearConstraint._generate_components (lines 45-47): pass.
BaseGenerateComponents(buf) == buf

\* The no-op unit's _generate_components: the one it inherits.
NoOpGenerate ==
    /\ unit = "NoLinearConstraint"
    /\ upc = "hosts"
    /\ LET buf == BaseGenerateComponents(Buffers)
       IN  /\ self_variables' = buf.variables
           /\ self_coefficients' = buf.coefficients
           /\ self_constants' = buf.constants
           /\ self_operators' = buf.operators
    /\ upc' = "finish"
    /\ UNCHANGED <<orch_vars, unit, hosts, u_num_instances, max_io_ops,
                   pci_requests, host_index, host_pci_stats, acceptable_times,
                   trials, components, stats_ref, unit_request, vectors,
                   self_gen, call_vars>>

\* The sum row with the operator '<' in place of '<='.
NumInstancesRows_strict(buf, i0, load, limit, n) ==
    IF load < limit
    THEN [variables |-> Append(buf.variables,
                                [k \in 1..n |-> var_matrix(i0, k - 1)]),
          coefficients |-> Append(buf.coefficients, [k \in 1..n |-> 1]),
          constants |-> Append(buf.constants, limit - load),
          operators |-> Append(buf.operators, "<")]
    ELSE AppendForcedZero(buf, i0, 0, n)

\* The rows of one host of the num-instances unit, as the unit's test
\* expects them: below the limit one row over the host's variables,
\* coefficients 1, constant limit - load, '<='; else the singleton rows.
NumInstancesRows(buf, i0, load, limit, n) ==
    IF load < limit
    THEN [variables |-> Append(buf.variables,
                                [k \in 1..n |-> var_matrix(i0, k - 1)]),
          coefficients |-> Append(buf.coefficients, [k \in 1..n |-> 1]),
          constants |-> Append(buf.constants, limit - load),
          operators |-> Append(buf.operators, "<=")]
    ELSE AppendForcedZero(buf, i0, 0, n)

\* NumInstancesConstraint._generate_components, one iteration of the host
\* loop.
NumInstancesHost ==
    /\ unit = "NumInstancesConstraint"
    /\ upc = "hosts"
    /\ host_index < Len(hosts)
    /\ LET buf == NumInstancesRows(Buffers, host_index,
                                   hosts[host_index + 1].num_instances,
                                   max_instances_per_host, u_num_instances)
       IN  /\ self_variables' = buf.variables
           /\ self_coefficients' = buf.coefficients
           /\ self_constants' = buf.constants
           /\ self_operators' = buf.operators
    /\ host_index' = host_index + 1
    /\ UNCHANGED <<orch_vars, unit, upc, hosts, u_num_instances, max_io_ops,
                   pci_requests, host_pci_stats, acceptable_times, trials,
                   components, stats_ref, unit_request, vectors, self_gen,
                   call_vars>>

\* self.num_hosts and self.num_instances of a vector unit, set by the base
\* class from the host list and the request.
self_num_hosts == Len(hosts)
self_num_instances == u_num_instances

\* The coefficients of a host swapped: 1 when it passes, 0 when it fails.
CoefficientVector_swapped(host_passes, n) ==
    [j \in 1..n |-> IF host_passes THEN 1 ELSE 0]

\* [0 for j in range(self.num_instances)] when the host passes, else
\* [1 for j in range(self.num_instances)] (aggregate_type_affinity lines
\* 48-52, num_networks_per_aggregate lines 65-70).
CoefficientVector(host_passes, n) ==
    [j \in 1..n |-> IF host_passes THEN 0 ELSE 1]

\* aggregate_type_affinity lines 46-47: len(metadata) == 0 or
\* instance_type['name'] in metadata['instance_type'].
AggregateTypeHostPasses(metadata, type) ==
    metadata = <<>> \/ type \in metadata[1]

\* num_networks_per_aggregate lines 55-59: the requested entries with a
\* network_id that is not among the aggregate's networks, counted one by one.
RECURSIVE NumNewNetworks(_, _)
NumNewNetworks(requested, aggregate_networks) ==
    IF requested = <<>> THEN 0
    ELSE (IF Head(requested) # 0 /\ Head(requested) \notin aggregate_networks
          THEN 1 ELSE 0)
         + NumNewNetworks(Tail(requested), aggregate_networks)

\* num_networks_per_aggregate lines 47-63: the loop over the host's
\* aggregates; "TypeError" is the for statement of line 56 iterating None.
RECURSIVE NetworksHostPasses(_, _)
NetworksHostPasses(aggregates_stats, requested) ==
    IF aggregates_stats = <<>> THEN "pass"
    ELSE LET aggregate == Head(aggregates_stats)
         IN  IF aggregate.max_networks = <<>> \/ aggregate.networks = <<>>
             THEN NetworksHostPasses(Tail(aggregates_stats), requested)
             ELSE IF requested = <<>> THEN "TypeError"
             ELSE IF NumNewNetworks(requested[1], aggregate.networks[1])
                        + Cardinality(aggregate.networks[1])
                     > aggregate.max_networks[1]
             THEN "fail"
             ELSE NetworksHostPasses(Tail(aggregates_stats), requested)

\* Whether host i (counted from 1) passes the test of the unit at work.
HostCheck(i) ==
    IF unit = "AggregateTypeAffinityConstraint"
    THEN IF AggregateTypeHostPasses(hosts[i].metadata, instance_type)
         THEN "pass" ELSE "fail"
    ELSE NetworksHostPasses(hosts[i].host_aggregates_stats,
                            requested_networks)

\* get_coefficient_vectors of the two vector units: one vector per host,
\* or the exception of the first host whose check raises.
GetCoefficientVectors ==
    /\ unit \in VectorUnits
    /\ upc = "idle"
    /\ vectors.coefficient_vectors = <<>>
    /\ IF \E i \in 1..self_num_hosts : HostCheck(i) = "TypeError"
       THEN /\ upc' = "raised"
            /\ UNCHANGED vectors
       ELSE /\ vectors' = [vectors EXCEPT !.coefficient_vectors =
                   << [i \in 1..self_num_hosts |->
                          CoefficientVector(HostCheck(i) = "pass",
                                            self_num_instances)] >>]
            /\ UNCHANGED upc
    /\ UNCHANGED <<orch_vars, unit, hosts, u_num_instances, max_io_ops,
                   pci_requests, host_index, host_pci_stats, acceptable_times,
                   trials, self_variables, self_coefficients, self_constants,
                   self_operators, components, stats_ref, unit_request,
                   self_gen, call_vars>>

\* get_variable_vectors (aggregate_type_affinity lines 56-61,
\* num_networks_per_aggregate lines 74-82): variables[i][j] for every j,
\* for every i.
GetVariableVectors ==
    /\ unit \in VectorUnits
    /\ upc = "idle"
    /\ vectors.variable_vectors = <<>>
    /\ vectors' = [vectors EXCEPT !.variable_vectors =
           << [i \in 1..self_num_hosts |->
                  [j \in 1..self_num_instances |-> var_matrix(i - 1, j - 1)]] >>]
    /\ UNCHANGED <<orch_vars, unit, upc, hosts, u_num_instances, max_io_ops,
                   pci_requests, host_index, host_pci_stats, acceptable_times,
                   trials, self_variables, self_coefficients, self_constants,
                   self_operators, components, stats_ref, unit_request,
                   self_gen, call_vars>>

\* get_operations (aggregate_type_affinity lines 63-66,
\* num_networks_per_aggregate lines 84-89): lambda x: x == 0 for every host.
GetOperations ==
    /\ unit \in VectorUnits
    /\ upc = "idle"
    /\ vectors.operations = <<>>
    /\ vectors' = [vectors EXCEPT !.operations =
           << [i \in 1..self_num_hosts |-> "x == 0"] >>]
    /\ UNCHANGED <<orch_vars, unit, upc, hosts, u_num_instances, max_io_ops,
                   pci_requests, host_index, host_pci_stats, acceptable_times,
                   trials, self_variables, self_coefficients, self_constants,
                   self_operators, components, stats_ref, unit_request,
                   self_gen, call_vars>>

NextUnits ==
    \/ GetComponents
    \/ IoOpsHost
    \/ PciBeginHost
    \/ PciTrial
    \/ PciEmitRows
    \/ FilterHost
    \/ NoOpGenerate
    \/ NumInstancesHost
    \/ ReturnComponents
    \/ GetCoefficientVectors
    \/ GetVariableVectors
    \/ GetOperations

SpecUnits == InitUnits /\ [][NextUnits]_vars

\* get_components runs in the caller's thread from its first statement to
\* its return: a step that can be taken is taken.
SpecUnitsFair == SpecUnits /\ WF_vars(NextUnits)

\* Calls of get_components served by one unit object.
MaxCalls == 2

\* The caller of a returned result calls get_components of the same unit
\* object again, with the same request or with another one: the same hosts
\* or only the last of them, and any instance count.
CallAgain ==
    /\ unit \in ComponentUnits
    /\ upc = "returned"
    /\ call_no + 1 < MaxCalls
    /\ hosts' \in {hosts, << hosts[Len(hosts)] >>}
    /\ u_num_instances' \in 1..MaxUnitInstances
    /\ entry_hosts' = hosts'
    /\ earlier' = << [gen |-> self_gen, components |-> components,
                      hosts |-> hosts, num_instances |-> u_num_instances] >>
    /\ call_no' = call_no + 1
    /\ trials' = <<>>
    /\ upc' = "idle"
    /\ UNCHANGED <<orch_vars, unit, max_io_ops, pci_requests, host_index,
                   host_pci_stats, acceptable_times, self_variables,
                   self_coefficients, self_constants, self_operators,
                   components, stats_ref, unit_request, vectors, self_gen>>

\* The units with get_components, each object serving up to MaxCalls calls.
InitCalls == InitUnits /\ unit \in ComponentUnits

NextCalls ==
    \/ GetComponents
    \/ IoOpsHost
    \/ PciBeginHost
    \/ PciTrial
    \/ PciEmitRows
    \/ FilterHost
    \/ NoOpGenerate
    \/ NumInstancesHost
    \/ ReturnComponents
    \/ CallAgain

SpecCalls == InitCalls /\ [][NextCalls]_vars

\* ============================================================== properties
\* The handler of the solve attempt's exception has run.
PastHandler == pc \in {"selected", "loop", "done"}

\* The bag at the caller's address differs from what the caller passed:
\* the solve attempt has written into it.
SolveAttemptLeftMarks == DeepValue(bags, retries, "fp") # entry_bag

\* C1: in both public methods, when the solve attempt ended with
\* SolverFailed and the fallback is enabled, the fallback's _schedule was
\* called with a bag whose value is the value of the caller's bag on entry
\* (nothing the solve attempt merged in, retry bookkeeping included), and
\* the bag used from then on is that restored copy, not the caller's object.
FallbackGetsPristineBag ==
    /\ \A k \in 1..Len(fallback_args) : fallback_args[k] = entry_bag
    /\ (fallback_args # <<>> =>
           /\ orig_filter_properties # <<>>
           /\ filter_properties = orig_filter_properties[1]
           /\ filter_properties # "fp")
    /\ (/\ PastHandler
        /\ solver_calls = <<"SolverFailed">>
        /\ enable_fallback_scheduler
        => Len(fallback_args) = 1)

\* C1 witness: the fallback ran after a solve attempt that had bumped the
\* caller's retry dictionary in place and merged keys into the caller's bag.
FallbackAfterMergedSolve ==
    /\ pc = "done"
    /\ fallback_args # <<>>
    /\ entry_bag.retry # <<>>
    /\ retries["fp_retry"].num_attempts > entry_bag.retry[1].num_attempts
    /\ "config_options" \in DOMAIN bags["fp"].data
    /\ SolveAttemptLeftMarks

\* C2: the fallback is invoked at most once per request and only after the
\* solver signalled SolverFailed with the fallback enabled; a solved request
\* that assigns fewer pairs than requested (zero included) never invokes
\* it; the selection list is wholly the solver's or wholly the fallback's.
FallbackWholeSubstitute ==
    /\ Len(fallback_args) <= 1
    /\ Len(solver_calls) <= 1
    /\ (fallback_args # <<>> =>
           enable_fallback_scheduler /\ solver_calls = <<"SolverFailed">>)
    /\ (solver_calls = <<"solved">> /\ Len(selection) < num_instances =>
           fallback_args = <<>>)
    /\ \A p, q \in 1..Len(selection) : selection[p].by = selection[q].by
    /\ \A p \in 1..Len(selection) :
          selection[p].by = IF fallback_args # <<>> THEN "fallback" ELSE "solver"

\* C2 witness: with the fallback enabled the solver returned fewer pairs
\* than requested and the request finished on the solver's list.
UnderAssignmentWithFallbackEnabled ==
    /\ pc = "done"
    /\ enable_fallback_scheduler
    /\ solver_calls = <<"solved">>
    /\ Len(selection) < num_instances
    /\ Len(selection) > 0

\* C3: after SolverFailed with the fallback disabled the selection list is
\* empty; schedule_run_instance provisions nothing and reports NoValidHost
\* once for every requested instance, in order, and select_destinations
\* raises NoValidHost.
NoFallbackMeansNoValidHost ==
    (solver_calls = <<"SolverFailed">> /\ ~enable_fallback_scheduler
        /\ pc \notin {"solve", "failed"})
    => /\ pc \in {"selected", "loop", "done"}
       /\ selection = <<>>
       /\ weighed_hosts = <<>>
       /\ fallback_args = <<>>
       /\ provision_calls = <<>>
       /\ dests = <<>>
       /\ (entry = "select_destinations" /\ pc = "done" => exc = "NoValidHost")
       /\ (entry = "schedule_run_instance" =>
              /\ exc = "none"
              /\ Len(error_reports) = num
              /\ \A k \in 1..num :
                    error_reports[k] = [uuid |-> instance_uuids[k],
                                        ex |-> "NoValidHost"]
              /\ (pc = "done" => num = Len(instance_uuids)))

\* C3 witness: schedule_run_instance finished a request of several
\* instances after SolverFailed with the fallback disabled.
RunInstanceDoneWithoutFallback ==
    /\ pc = "done"
    /\ entry = "schedule_run_instance"
    /\ solver_calls = <<"SolverFailed">>
    /\ ~enable_fallback_scheduler
    /\ Len(error_reports) >= 2

\* Number of handle_schedule_error calls made for instance uuid.
ReportsFor(uuid) ==
    Cardinality({ k \in 1..Len(error_reports) : error_reports[k].uuid = uuid })

\* C4: in schedule_run_instance, with a selection list of length m, the
\* k-th requested instance (in request order) is attempted on the k-th
\* selection for every k <= m and is reported NoValidHost for every k > m;
\* NoValidHost is reported for that tail only, and the batch is not aborted.
InstanceGetsKthSelection ==
    entry = "schedule_run_instance" =>
       /\ (pc \in {"loop", "done"} => Len(attempts) = num)
       /\ (pc = "done" => Len(attempts) = Len(instance_uuids))
       /\ (pc = "aborted" => attempts = <<>>)
       /\ \A k \in 1..Len(attempts) :
             /\ attempts[k].uuid = instance_uuids[k]
             /\ IF k <= Len(selection)
                THEN /\ attempts[k].used = <<selection[k]>>
                     /\ attempts[k].result \in {"provisioned", "error"}
                ELSE /\ attempts[k].used = <<>>
                     /\ attempts[k].result = "NoValidHost"
       /\ \A r \in 1..Len(error_reports) :
             error_reports[r].ex = "NoValidHost" <=>
                \E k \in (Len(selection) + 1)..Len(attempts) :
                   error_reports[r].uuid = instance_uuids[k]

\* C4 witness: a finished request of three instances whose selection list
\* held two different hosts, so that the third instance had none.
TwoSelectionsForThreeInstances ==
    /\ pc = "done"
    /\ entry = "schedule_run_instance"
    /\ Len(instance_uuids) = 3
    /\ Len(selection) = 2
    /\ selection[1].obj # selection[2].obj
    /\ attempts[3].result = "NoValidHost"

\* C5: in schedule_run_instance a provisioning error is reported for its
\* instance only: every requested instance is processed exactly once
\* (provisioned, or reported in error once), instances after a failed one
\* are still attempted, a selection consumed by a failed instance is gone
\* from the list, and the loop ends with 'scheduler.run_instance.end'.
ProvisionErrorsAreIsolated ==
    entry = "schedule_run_instance" =>
       /\ (pc = "aborted" => num = 0 /\ attempts = <<>> /\ error_reports = <<>>)
       /\ (pc \in {"loop", "done"} =>
              /\ Len(attempts) = num
              /\ \A k \in 1..Len(instance_uuids) :
                    LET uuid == instance_uuids[k] IN
                    IF k <= num
                    THEN /\ attempts[k].uuid = uuid
                         /\ ReportsFor(uuid) =
                               IF attempts[k].result = "provisioned" THEN 0 ELSE 1
                    ELSE ReportsFor(uuid) = 0
              /\ Len(provision_calls) <= Len(selection)
              /\ \A c \in 1..Len(provision_calls) :
                    provision_calls[c].host = selection[c].obj
              /\ weighed_hosts = SubSeq(selection, Len(provision_calls) + 1,
                                        Len(selection)))
       /\ (pc = "done" =>
              /\ num = Len(instance_uuids)
              /\ notifications = <<"scheduler.run_instance.start",
                                   "scheduler.run_instance.end">>)
       /\ (pc # "done" =>
              \A e \in 1..Len(notifications) :
                 notifications[e] # "scheduler.run_instance.end")

\* C5 witness: the first instance failed in provisioning, the second was
\* provisioned on the next selection, and the request finished.
SecondProvisionedAfterFirstFailed ==
    /\ pc = "done"
    /\ entry = "schedule_run_instance"
    /\ Len(attempts) >= 2
    /\ attempts[1].result = "error"
    /\ attempts[2].result = "provisioned"
    /\ attempts[1].used # attempts[2].used

\* C6: select_destinations raises NoValidHost exactly when the selection
\* list it obtained (solver's, or fallback's after SolverFailed) is shorter
\* than request_spec['num_instances']; otherwise it returns one record per
\* selection, in selection order, never a partial list.
SelectDestinationsAllOrNothing ==
    (entry = "select_destinations" /\ pc = "done") =>
       /\ (exc = "NoValidHost" <=>
              Len(selection) < request_spec.num_instances[1])
       /\ exc \in {"none", "NoValidHost"}
       /\ (exc = "NoValidHost" => dests = <<>>)
       /\ (exc = "none" =>
              /\ Len(dests) = Len(selection)
              /\ Len(dests) >= request_spec.num_instances[1]
              /\ \A p \in 1..Len(dests) :
                    /\ dests[p].host = selection[p].obj
                    /\ dests[p].nodename = selection[p].obj
                    /\ dests[p].limits = selection[p].obj)

\* C6 witness: select_destinations returned a full list of several
\* selections that came from the fallback.
FullListFromFallback ==
    /\ pc = "done"
    /\ entry = "select_destinations"
    /\ exc = "none"
    /\ Len(dests) >= 2
    /\ fallback_args # <<>>

UnitVariables ==
    { var_matrix(a, b) : a \in 0..(Len(hosts) - 1),
                         b \in 0..(u_num_instances - 1) }

\* Left-hand side of a row under the 0/1 assignment that sets exactly the
\* variables of X to 1.
RECURSIVE RowSum(_, _, _)
RowSum(X, vs, cs) ==
    IF vs = <<>> THEN 0
    ELSE cs[1] * (IF vs[1] \in X THEN 1 ELSE 0) + RowSum(X, Tail(vs), Tail(cs))

\* A row relates its left-hand side to its constant by its operator.
RowHolds(lhs, op, c) ==
    CASE op = "==" -> lhs = c
      [] op = "<=" -> lhs <= c
      [] op = ">=" -> lhs >= c
      [] op = "<"  -> lhs < c
      [] op = ">"  -> lhs > c
      [] op = "!=" -> lhs # c

\* The assignment X satisfies every row of the returned components.
SatisfiesAll(X, comp) ==
    \A r \in 1..Len(comp[1]) :
       RowHolds(RowSum(X, comp[1][r], comp[2][r]), comp[4][r], comp[3][r])

\* Instances the assignment X puts on host a.
PlacedOn(X, a) == Cardinality({ b \in 0..(u_num_instances - 1) : <<a, b>> \in X })

\* Successful trials of host a (counted from 0) in the trial log.
Accepted(a) ==
    Cardinality({ t \in 1..Len(trials[a + 1]) : trials[a + 1][t] })

\* max(0, L - u) for host a.
IoOpsRoom(a) ==
    IF max_io_ops - hosts[a + 1].num_io_ops > 0
    THEN max_io_ops - hosts[a + 1].num_io_ops ELSE 0

\* C8: every 0/1 assignment that satisfies all rows the I/O-ops unit
\* returned puts at most max(0, L - u_i) instances on host i, and every one
\* that satisfies all rows the device unit returned puts at most k_i
\* (successful trials) on host i; two instances never share a host that
\* fits one.
RowsCapPlacementsPerHost ==
    (/\ upc = "returned"
     /\ unit \in {"IoOpsConstraint", "PciPassthroughConstraint"}
     /\ (unit = "PciPassthroughConstraint" => pci_requests > 0))
    => \A X \in SUBSET UnitVariables :
          SatisfiesAll(X, components) =>
             \A a \in 0..(Len(hosts) - 1) :
                PlacedOn(X, a) <= IF unit = "IoOpsConstraint"
                                  THEN IoOpsRoom(a) ELSE Accepted(a)

\* C8 witness: the device unit returned rows for several instances and a
\* host list holding a host that fits exactly one instance.
DeviceHostFitsExactlyOne ==
    /\ upc = "returned"
    /\ unit = "PciPassthroughConstraint"
    /\ pci_requests > 0
    /\ u_num_instances >= 2
    /\ \E a \in 0..(Len(hosts) - 1) : Accepted(a) = 1
    /\ \E a \in 0..(Len(hosts) - 1) : Accepted(a) = u_num_instances

\* Row r of the result is the singleton row of coefficient 1, constant 0
\* and operator '=='.
ForcedZeroRow(comp, r) ==
    /\ Len(comp[1][r]) = 1
    /\ comp[2][r] = <<1>>
    /\ comp[3][r] = 0
    /\ comp[4][r] = "=="

\* The four lists have one entry per row.
SameLengths(comp) ==
    /\ Len(comp) = 4
    /\ Len(comp[2]) = Len(comp[1])
    /\ Len(comp[3]) = Len(comp[1])
    /\ Len(comp[4]) = Len(comp[1])

\* The rows' variables come hosts in index order, increasing j within a host.
RowsInIndexOrder(comp) ==
    \A r1, r2 \in 1..Len(comp[1]) :
       r1 < r2 =>
          LET v1 == comp[1][r1][1]
              v2 == comp[1][r2][1]
          IN  v1[1] < v2[1] \/ (v1[1] = v2[1] /\ v1[2] < v2[2])

\* C9: the rows the I/O-ops unit returns are exactly the singleton rows
\* ([i][j], 1, 0, '==') for every host i and j = max(0, L - u_i) .. N-1, in
\* increasing j, hosts in index order; a host with L - u_i >= N has no row.
IoOpsRowsExact ==
    (upc = "returned" /\ unit = "IoOpsConstraint") =>
       /\ SameLengths(components)
       /\ \A r \in 1..Len(components[1]) : ForcedZeroRow(components, r)
       /\ RowsInIndexOrder(components)
       /\ { components[1][r][1] : r \in 1..Len(components[1]) } =
             { <<a, b>> \in UnitVariables : b >= IoOpsRoom(a) }
       /\ \A a \in 0..(Len(hosts) - 1) :
             max_io_ops - hosts[a + 1].num_io_ops >= u_num_instances =>
                \A r \in 1..Len(components[1]) : components[1][r][1][1] # a

\* C9 witness: the I/O-ops unit returned rows for a host list holding an
\* overloaded host, a host with room for some of the instances and a host
\* with room for all of them.
IoOpsOverloadedPartialAndFree ==
    /\ upc = "returned"
    /\ unit = "IoOpsConstraint"
    /\ \E a \in 0..(Len(hosts) - 1) : max_io_ops < hosts[a + 1].num_io_ops
    /\ \E a \in 0..(Len(hosts) - 1) :
          /\ 0 < max_io_ops - hosts[a + 1].num_io_ops
          /\ max_io_ops - hosts[a + 1].num_io_ops < u_num_instances
    /\ \E a \in 0..(Len(hosts) - 1) :
          max_io_ops - hosts[a + 1].num_io_ops >= u_num_instances

\* Rows of the result whose variable belongs to host a.
RowsOfHost(comp, a) == { r \in 1..Len(comp[1]) : comp[1][r][1][1] = a }

\* C10: for the device unit, a host whose stats accept k trials and then
\* reject one (k < N) gets exactly N - k rows, the singleton equality-to-zero
\* rows on [i][j] for j = k .. N-1; a host that accepts all N trials gets
\* no row.
PciRowsPerHost ==
    (upc = "returned" /\ unit = "PciPassthroughConstraint" /\ pci_requests > 0)
    => /\ SameLengths(components)
       /\ Len(trials) = Len(hosts)
       /\ \A r \in 1..Len(components[1]) : ForcedZeroRow(components, r)
       /\ \A a \in 0..(Len(hosts) - 1) :
             LET t == trials[a + 1]
                 k == Accepted(a)
             IN  /\ \A x \in 1..k : t[x]
                 /\ IF Len(t) > k
                    THEN /\ Len(t) = k + 1
                         /\ k < u_num_instances
                         /\ Cardinality(RowsOfHost(components, a)) =
                               u_num_instances - k
                         /\ { components[1][r][1] : r \in RowsOfHost(components, a) }
                               = { <<a, b>> : b \in k..(u_num_instances - 1) }
                    ELSE /\ k = u_num_instances
                         /\ RowsOfHost(components, a) = {}

\* C10 witness: the trial answers of the unit test (True, False / False /
\* True, True for two instances) and the rows the test expects.
PciUnitTestScenario ==
    /\ upc = "returned"
    /\ unit = "PciPassthroughConstraint"
    /\ u_num_instances = 2
    /\ trials = << <<TRUE, FALSE>>, <<FALSE>>, <<TRUE, TRUE>> >>
    /\ components = << << << <<0, 1>> >>, << <<1, 0>> >>, << <<1, 1>> >> >>,
                       << <<1>>, <<1>>, <<1>> >>,
                       << 0, 0, 0 >>,
                       << "==", "==", "==" >> >>

\* C11: while the device unit generates rows, in every call and whatever
\* the hosts, the instance count and the trial answers, the stats the hosts
\* own stay what they were when the call started; the trial commits go to
\* an object of the unit's own that starts, for every host, as a copy of
\* that host's stats.
PciHostStatsUntouched ==
    unit = "PciPassthroughConstraint" =>
       /\ hosts = entry_hosts
       /\ stats_ref = "copy"
       /\ (upc \in {"trial", "rows"} =>
              host_pci_stats = entry_hosts[host_index + 1].pci_stats
                                  - acceptable_times * pci_requests)

\* C11 witness: in a second call the second host's copy has taken two
\* commits and differs from the stats the host owns.
SecondCallCopyConsumed ==
    /\ unit = "PciPassthroughConstraint"
    /\ call_no = 1
    /\ upc = "trial"
    /\ host_index >= 1
    /\ acceptable_times >= 2
    /\ host_pci_stats < hosts[host_index + 1].pci_stats

\* Hosts (counted from 0) the wrapped filter rejects.
FailingHosts == { a \in 0..(Len(hosts) - 1) : ~hosts[a + 1].host_passes }

\* C12: the filter-adapter unit evaluates the wrapped filter once per host,
\* in host order; a failing host gets exactly N singleton equality-to-zero
\* rows, one per instance slot [i][0..N-1], a passing host gets no row, and
\* the result has N rows per failing host.
FilterRowsPerFailingHost ==
    unit = "BaseFilterConstraint" =>
       /\ (upc = "hosts" => Len(trials) = host_index)
       /\ \A a \in 0..(Len(trials) - 1) : trials[a + 1] = << hosts[a + 1].host_passes >>
       /\ (upc = "returned" =>
              /\ SameLengths(components)
              /\ Len(trials) = Len(hosts)
              /\ \A r \in 1..Len(components[1]) : ForcedZeroRow(components, r)
              /\ RowsInIndexOrder(components)
              /\ \A a \in 0..(Len(hosts) - 1) :
                    { components[1][r][1] : r \in RowsOfHost(components, a) } =
                       IF a \in FailingHosts
                       THEN { <<a, b>> : b \in 0..(u_num_instances - 1) }
                       ELSE {}
              /\ Len(components[1]) = u_num_instances * Cardinality(FailingHosts))

\* C12 witness: the unit returned rows for several instances and a host
\* list with a passing host between two failing ones.
FilterFailPassFail ==
    /\ unit = "BaseFilterConstraint"
    /\ upc = "returned"
    /\ u_num_instances >= 2
    /\ Len(hosts) = 3
    /\ FailingHosts = {0, 2}
    /\ Len(components[1]) = 2 * u_num_instances

\* The three vector methods of the unit have returned.
VectorsReturned ==
    /\ unit \in VectorUnits
    /\ vectors.coefficient_vectors # <<>>
    /\ vectors.variable_vectors # <<>>
    /\ vectors.operations # <<>>

\* The variables of host i (counted from 1) of a vector unit.
HostVariables(i) == { <<i - 1, b>> : b \in 0..(u_num_instances - 1) }

NoOpReturnsEmptyLists ==
    (unit = "NoLinearConstraint" /\ upc = "returned") =>
       components = << <<>>, <<>>, <<>>, <<>> >>

\* C14 witness: the no-op unit returned from its second call, for the two
\* hosts and three instances of its unit test.
NoOpSecondCallReturned ==
    /\ unit = "NoLinearConstraint"
    /\ upc = "returned"
    /\ call_no = 1
    /\ Len(hosts) = 2
    /\ u_num_instances = 3

\* The tuple an earlier call returned, as its holder sees it now: the lists
\* are the unit's current ones if the unit's attributes still name them.
EarlierAsSeenNow ==
    IF earlier[1].gen = self_gen
    THEN <<self_variables, self_coefficients, self_constants, self_operators>>
    ELSE earlier[1].components

\* C15: every call of get_components starts from four empty buffers, a
\* second call with the inputs of the first returns equal rows, and the
\* lists the earlier call returned still hold what they held.
GetComponentsIdempotent ==
    unit \in ComponentUnits =>
       /\ (upc = "hosts" /\ host_index = 0 => Buffers = EmptyBuffers)
       /\ (upc = "finish" /\ unit = "PciPassthroughConstraint"
              => Buffers = EmptyBuffers)
       /\ (earlier # <<>> => EarlierAsSeenNow = earlier[1].components)
       /\ (/\ earlier # <<>>
           /\ upc = "returned"
           /\ earlier[1].hosts = hosts
           /\ earlier[1].num_instances = u_num_instances
           => components = earlier[1].components)

\* C15 witness: a second call with the inputs of the first returned, and
\* the result holds rows.
SecondCallSameInputsWithRows ==
    /\ earlier # <<>>
    /\ upc = "returned"
    /\ earlier[1].hosts = hosts
    /\ earlier[1].num_instances = u_num_instances
    /\ Len(components[1]) >= 2
    /\ earlier[1].gen # self_gen

\* Variables some 0/1 assignment satisfying all rows sets to 1.
Feasible(comp) ==
    { v \in UnitVariables :
         \E X \in SUBSET UnitVariables : v \in X /\ SatisfiesAll(X, comp) }

\* Three hosts with room for 1, 2 and 5 more under the limit 5, two
\* instances: the capacity scenario, returned by the I/O-ops unit.
CapacityScenario ==
    /\ unit = "IoOpsConstraint"
    /\ upc = "returned"
    /\ max_io_ops = 5
    /\ u_num_instances = 2
    /\ Len(hosts) = 3
    /\ max_io_ops - hosts[1].num_io_ops = 1
    /\ max_io_ops - hosts[2].num_io_ops = 2
    /\ max_io_ops - hosts[3].num_io_ops = 5

NumInstancesRowsAsTested ==
    (unit = "NumInstancesConstraint" /\ upc = "returned") =>
       /\ SameLengths(components)
       /\ RowsInIndexOrder(components)
       /\ \A r \in 1..Len(components[1]) :
             components[1][r][1][1] \in 0..(Len(hosts) - 1)
       /\ \A a \in 0..(Len(hosts) - 1) :
             LET u == hosts[a + 1].num_instances
                 L == max_instances_per_host
                 R == RowsOfHost(components, a)
             IN  IF u < L
                 THEN \E r \in R :
                         /\ R = {r}
                         /\ components[1][r] =
                               [k \in 1..u_num_instances |-> <<a, k - 1>>]
                         /\ components[2][r] = [k \in 1..u_num_instances |-> 1]
                         /\ components[3][r] = L - u
                         /\ components[4][r] = "<="
                 ELSE /\ Cardinality(R) = u_num_instances
                      /\ \A r \in R : ForcedZeroRow(components, r)
                      /\ { components[1][r][1] : r \in R } =
                            { <<a, b>> : b \in 0..(u_num_instances - 1) }

\* C17 witness: the unit test's hosts running 1, 2 and 5 instances, limit
\* 5, two instances, and the four lists the test expects.
NumInstancesUnitTestScenario ==
    /\ unit = "NumInstancesConstraint"
    /\ upc = "returned"
    /\ max_instances_per_host = 5
    /\ u_num_instances = 2
    /\ hosts = << [num_instances |-> 1], [num_instances |-> 2],
                  [num_instances |-> 5] >>
    /\ components =
          << << << <<0, 0>>, <<0, 1>> >>, << <<1, 0>>, <<1, 1>> >>,
                << <<2, 0>> >>, << <<2, 1>> >> >>,
             << <<1, 1>>, <<1, 1>>, <<1>>, <<1>> >>,
             << 4, 3, 0, 0 >>,
             << "<=", "<=", "==", "==" >> >>

\* Nothing of the request was assigned, provisioned or reported.
NothingPlaced ==
    /\ weighed_hosts = <<>>
    /\ selection = <<>>
    /\ provision_calls = <<>>
    /\ attempts = <<>>
    /\ error_reports = <<>>
    /\ dests = <<>>
    /\ \A k \in 1..Len(notifications) :
          notifications[k] # "scheduler.run_instance.end"

\* C18: in both public methods an exception other than SolverFailed raised
\* by the solve attempt (a constraint unit raising, a dimension error, the
\* retry bookkeeping of _schedule) leaves the method as that exception: the
\* fallback is not called, the bag in use stays the caller's, and nothing is
\* assigned, provisioned or reported per instance.
OtherExceptionsPropagate ==
    /\ (solver_calls # <<>> /\ solver_calls[1] \notin {"solved", "SolverFailed"}
           => /\ pc = "aborted"
              /\ exc = solver_calls[1]
              /\ Len(solver_calls) = 1)
    /\ (pc = "aborted" /\ solver_calls # <<"SolverFailed">>
           => /\ exc \notin {"none", "SolverFailed"}
              /\ fallback_args = <<>>
              /\ filter_properties = "fp"
              /\ NothingPlaced)
    /\ (pc = "aborted" => exc # "none" /\ NothingPlaced)

\* C18 witness: schedule_run_instance for several instances, fallback
\* enabled, ended by the exception a constraint unit raised.
RunInstanceAbortedByUnitError ==
    /\ entry = "schedule_run_instance"
    /\ enable_fallback_scheduler
    /\ num_instances >= 2
    /\ pc = "aborted"
    /\ exc = "ConstraintUnitError"

RetryHostsEmptiedBetweenInstances ==
    entry = "schedule_run_instance" =>
       /\ (/\ pc \in {"loop", "done"}
           /\ num >= 1
           /\ bags[filter_properties].retry # <<>>
           => retries[bags[filter_properties].retry[1]].hosts = <<>>)
       /\ \A c \in 1..Len(provision_calls) :
             (provision_calls[c].launch_index >= 1
              /\ provision_calls[c].props.retry # <<>>)
             => provision_calls[c].props.retry[1].hosts = <<>>

\* C20 witness: two instances were provisioned on the fallback's bag, whose
\* retry host list was not empty when the first one was provisioned.
SecondProvisionAfterScrub ==
    /\ entry = "schedule_run_instance"
    /\ pc = "loop"
    /\ filter_properties # "fp"
    /\ Len(provision_calls) >= 2
    /\ provision_calls[1].props.retry # <<>>
    /\ provision_calls[1].props.retry[1].hosts # <<>>
    /\ provision_calls[2].props.retry[1].hosts = <<>>

\* ------------------------------------------------------- order of the steps
\* Every occurrence of step b in the trace has an occurrence of a before it.
Before(a, b) ==
    \A q \in 1..Len(stages) :
        stages[q] = b => \E p \in 1..(q - 1) : stages[p] = a

\* How often step a occurs in the trace.
Count(a) == Cardinality({ q \in 1..Len(stages) : stages[q] = a })

\* What the order of the steps has in common in the stated reading and in the
\* order the methods take: the copy comes first, the solver is invoked at
\* most once, the fallback runs only after the solver failed, no instance is
\* assigned before the solve (and the fallback, if there was one) returned,
\* and the request is done only after its last instance.
StepsAroundTheSolve ==
    /\ stages # <<>> => stages[1] = "copy"
    /\ Count("copy") <= 1 /\ Count("gather") <= 1 /\ Count("merge") <= 1
    /\ Count("solve") <= 1
    /\ Len(solver_calls) = Count("solve")
    /\ Before("solve", "fallback")
    /\ Count("fallback") > 0 => solver_calls = <<"SolverFailed">>
    /\ Len(fallback_args) = Count("fallback")
    /\ Before("solve", "assign")
    /\ \A q \in 1..Len(stages) :
          stages[q] = "fallback" =>
              \A p \in 1..(q - 1) : stages[p] # "assign"
    /\ Count("assign") = Len(attempts)
    /\ \A q \in 1..Len(stages) : stages[q] = "done" => q = Len(stages)
    /\ (Count("done") > 0 /\ entry = "schedule_run_instance") =>
          Count("assign") = Len(instance_uuids)

\* C21 as stated: copy, then the hosts are gathered, then the properties are
\* merged, then the one solve; fallback only after the failure; no assignment
\* before the solve; done after the last instance.
StagesInStatedOrder ==
    /\ StepsAroundTheSolve
    /\ Before("copy", "gather")
    /\ Before("gather", "merge")
    /\ Before("merge", "solve")

\* C21 (amended): in every request the pristine bag is copied first, then the
\* properties are merged, then the hosts are gathered into the fixed list,
\* then the solver is invoked once on that list; the fallback runs only after
\* the solver failure; no instance is assigned before the solve (or the
\* fallback) has returned; and the request reaches DONE after the last
\* instance: in the assignment loop a step is always possible, each step
\* takes the next instance, and the loop is left for DONE exactly when the
\* last instance has been taken.
StagesInCodeOrder ==
    /\ [](/\ StepsAroundTheSolve
          /\ Before("copy", "merge")
          /\ Before("merge", "gather")
          /\ Before("gather", "solve"))
    /\ [][pc \notin {"start", "schedule", "gather"} => list_hosts' = list_hosts]_vars
    /\ [](pc = "loop" => ENABLED (ProvisionInstance \/ NotifyEnd))
    /\ [][pc = "loop" =>
            \/ pc' = "done" /\ num = Len(instance_uuids)
            \/ pc' = "loop" /\ num' = num + 1 /\ num' <= Len(instance_uuids)]_vars

\* A request for three instances went through the solver's failure and the
\* fallback and is done.
ThreeAssignedAfterFallback ==
    /\ pc = "done"
    /\ stages = <<"copy", "merge", "gather", "solve", "fallback",
                  "assign", "assign", "assign", "done">>

\* C22: on solver success _get_selected_hosts returns exactly one
\* selected-host record per (host, instance) pair the solver returned, in the
\* solver's order, each wrapping that pair's host with weight 1: nothing is
\* added, dropped or reordered.
SelectionMirrorsSolverPairs ==
    solver_calls = <<"solved">> =>
        /\ Len(selection) = Len(solver_pairs)
        /\ \A p \in 1..Len(solver_pairs) :
              /\ selection[p].obj = list_hosts[solver_pairs[p][1]]
              /\ selection[p].weight = 1
              /\ selection[p].by = "solver"

\* The solver returned two pairs on two different hosts.
TwoPairsOnTwoHosts ==
    /\ pc = "selected"
    /\ solver_calls = <<"solved">>
    /\ Len(solver_pairs) = 2
    /\ list_hosts[solver_pairs[1][1]] # list_hosts[solver_pairs[2][1]]
    /\ Len(selection) = 2

\* ------------------------------------------------- bounded row generation
\* The units that emit forced-zero rows host by host.
RowUnits == {"IoOpsConstraint", "PciPassthroughConstraint",
             "BaseFilterConstraint"}

\* Number of accepted trials among the answers t.
AcceptedTrials(t) == Cardinality({ k \in 1..Len(t) : t[k] })

\* C23: row generation of the capacity-style, device-passthrough and
\* filter-adapter units always terminates, with at most
\* num_hosts * num_instances rows; the device trial loop consults the stats
\* at most num_instances times per host, stops at the first rejection, and
\* commits usage exactly once after each accepted trial.
RowGenerationBounded ==
    /\ [](unit \in RowUnits =>
            /\ Len(self_variables) <= Len(hosts) * u_num_instances
            /\ (components # <<>> =>
                   Len(components[1]) <= Len(hosts) * u_num_instances))
    /\ [](unit = "PciPassthroughConstraint" =>
            /\ \A h \in 1..Len(trials) :
                  /\ Len(trials[h]) <= u_num_instances
                  /\ \A k \in 1..(Len(trials[h]) - 1) : trials[h][k]
            /\ (upc \in {"trial", "rows"} =>
                   /\ acceptable_times = AcceptedTrials(trials[Len(trials)])
                   /\ host_pci_stats =
                          entry_hosts[host_index + 1].pci_stats
                              - acceptable_times * pci_requests))
    /\ (unit \in RowUnits => <>(upc = "returned"))

\* A device call returned after one host rejected its third trial and
\* another host accepted all num_instances trials.
TrialsStoppedAndExhausted ==
    /\ unit = "PciPassthroughConstraint"
    /\ upc = "returned"
    /\ pci_requests > 0
    /\ u_num_instances = 3
    /\ \E h1, h2 \in 1..Len(trials) :
          /\ trials[h1] = <<TRUE, TRUE, FALSE>>
          /\ trials[h2] = <<TRUE, TRUE, TRUE>>

\* ------------------------------------------- what provisioning is handed
\* C24: in schedule_run_instance the property bag passed to every
\* provisioning call has no 'context' key and the request_spec passed has no
\* 'instance_uuids' key, whether the selection came from the solver, from the
\* fallback or is the empty list of a failure without fallback, while
\* request_spec holds 'instance_uuids' during the whole scheduling attempt.
ProvisioningSeesNoContextNoUuids ==
    entry = "schedule_run_instance" =>
        /\ \A c \in 1..Len(provision_calls) :
              /\ ~provision_calls[c].spec_has_uuids
              /\ "context" \notin DOMAIN provision_calls[c].props.data
        /\ (pc \in {"loop", "done"} =>
               /\ request_spec.instance_uuids = <<>>
               /\ "context" \notin DOMAIN bags[filter_properties].data)
        /\ (pc \in {"start", "schedule", "gather", "solve", "failed",
                     "selected"} =>
               request_spec.instance_uuids # <<>>)

\* The caller's bag came with a 'context' key, the solver failed, and an
\* instance was provisioned from the fallback's selection.
ProvisionedFromFallbackWithCallerContext ==
    /\ "context" \in DOMAIN entry_bag.data
    /\ solver_calls = <<"SolverFailed">>
    /\ fallback_args # <<>>
    /\ Len(provision_calls) >= 2

\* --------------------------------------------- placements the rows leave
\* The acceptable count a_i of host a (counted from 0) in the call that
\* returned: room under the I/O limit, or accepted device trials.
AcceptableCount(a) ==
    IF unit = "IoOpsConstraint" THEN IoOpsRoom(a) ELSE Accepted(a)

\* Sum of the acceptable counts of the first m hosts, each capped at n.
RECURSIVE TotalAcceptable(_, _)
TotalAcceptable(m, n) ==
    IF m = 0 THEN 0
    ELSE (IF AcceptableCount(m - 1) < n THEN AcceptableCount(m - 1) ELSE n)
         + TotalAcceptable(m - 1, n)

\* The assignment X puts every instance on exactly one host.
EveryInstancePlacedOnce(X) ==
    \A b \in 0..(u_num_instances - 1) :
        Cardinality({ a \in 0..(Len(hosts) - 1) : <<a, b>> \in X }) = 1

\* C25: the capacity-style and device-passthrough rows exclude no placement
\* that respects the per-host counts: whenever the N instances can be
\* distributed with host i receiving at most a_i, some 0/1 assignment
\* satisfies all emitted rows and puts every instance on exactly one host.
RowsExcludeNoAllowedPlacement ==
    (/\ upc = "returned"
     /\ unit \in {"IoOpsConstraint", "PciPassthroughConstraint"}
     /\ (unit = "PciPassthroughConstraint" => pci_requests > 0)
     /\ TotalAcceptable(Len(hosts), u_num_instances) >= u_num_instances)
    => \E X \in SUBSET UnitVariables :
          /\ SatisfiesAll(X, components)
          /\ EveryInstancePlacedOnce(X)

\* ------------------------------------------------------ well-formed results
\* C26: every result of get_components of the capacity-style,
\* device-passthrough and filter-adapter units is well formed: the four lists
\* have the same length, each row's variable list and coefficient list have
\* the same length, every variable is an entry [i][j] of the variable matrix
\* with i < num_hosts and j < num_instances, and no (i, j) variable appears
\* in two rows.
ResultsWellFormed ==
    (unit \in RowUnits /\ upc = "returned") =>
        /\ SameLengths(components)
        /\ \A r \in 1..Len(components[1]) :
              /\ Len(components[1][r]) = Len(components[2][r])
              /\ \A k \in 1..Len(components[1][r]) :
                    \E a \in 0..(Len(hosts) - 1),
                       b \in 0..(u_num_instances - 1) :
                        components[1][r][k] = var_matrix(a, b)
        /\ \A r1, r2 \in 1..Len(components[1]) :
              r1 # r2 =>
                 \A k1 \in 1..Len(components[1][r1]),
                    k2 \in 1..Len(components[1][r2]) :
                     components[1][r1][k1] # components[1][r2][k2]

\* A filter-adapter object returned rows from its second call, on a shorter
\* host list than in its first call, which had returned rows too.
SecondCallOnShorterListWithRows ==
    /\ unit = "BaseFilterConstraint"
    /\ upc = "returned"
    /\ earlier # <<>>
    /\ Len(earlier[1].components[1]) >= 2
    /\ Len(hosts) < Len(earlier[1].hosts)
    /\ Len(components[1]) >= 2

\* ------------------------------------------------- networks per aggregate
\* The network ids a request names (<<>> is a request without the key; an
\* entry without network_id names none).
RequestedIds(requested) ==
    IF requested = <<>> THEN {}
    ELSE { requested[1][k] : k \in 1..Len(requested[1]) } \ {0}

\* Some aggregate that defines both attributes would hold more distinct
\* networks after the request than its max_networks.
SomeAggregateOverLimit(aggregates_stats, requested) ==
    \E g \in 1..Len(aggregates_stats) :
        LET aggregate == aggregates_stats[g]
        IN  /\ aggregate.max_networks # <<>>
            /\ aggregate.networks # <<>>
            /\ Cardinality(aggregate.networks[1] \cup RequestedIds(requested))
                  > aggregate.max_networks[1]

\* C27: the networks-per-aggregate unit fails a host if and only if some
\* aggregate of the host that defines both max_networks and networks would
\* hold more distinct networks after the request than max_networks;
\* aggregates lacking either attribute are ignored, and naming the same new
\* network several times is judged as naming it once.
NetworksFailIffDistinctOverLimit ==
    (unit = "NumNetworksPerAggregateConstraint"
       /\ vectors.coefficient_vectors # <<>>)
    => \A i \in 1..Len(hosts) :
          (\A j \in 1..u_num_instances :
               vectors.coefficient_vectors[1][i][j] = 1)
          <=> SomeAggregateOverLimit(hosts[i].host_aggregates_stats,
                                     requested_networks)

\* ---------------------------------------------- absent request-specific keys
\* C28: a unit whose request-specific key is absent from the property bag
\* completes without error and restricts nothing on that account: the device
\* unit emits no rows when 'pci_requests' is missing or empty, and the
\* networks unit, when 'requested_networks' is missing, judges each host on
\* its aggregates' current network counts alone.
AbsentKeyCompletesUnrestricted ==
    /\ (unit = "PciPassthroughConstraint" /\ pci_requests = 0) =>
          /\ upc \notin {"hosts", "trial", "rows", "raised"}
          /\ self_variables = <<>>
          /\ (upc = "returned" => components = <<<<>>, <<>>, <<>>, <<>>>>)
    /\ (unit = "NumNetworksPerAggregateConstraint"
           /\ requested_networks = <<>>) =>
          /\ upc # "raised"
          /\ (vectors.coefficient_vectors # <<>> =>
                \A i \in 1..Len(hosts) :
                   (\A j \in 1..u_num_instances :
                        vectors.coefficient_vectors[1][i][j] = 1)
                   <=> SomeAggregateOverLimit(hosts[i].host_aggregates_stats,
                                              requested_networks))

====
